---- MODULE Spec2Model ----
(***************************************************************************)
(* Model of the multi-provider TVL engine: the file cache of ProviderBase, *)
(* the three provider adapters (DefiLlama, KingdomSubgraph, SwapxSubgraph) *)
(* merge_tvl_data, the protocol classes with their factory, and main.      *)
(*                                                                         *)
(* Text is a sequence of symbols.  A symbol is one character ("a", "/")    *)
(* or one indivisible program literal ("kingdom_subgraph_", "silo-v2").    *)
(* Python's None and "" are both the empty sequence wherever the code only *)
(* tests truthiness (the optional filters).  A JSON field is a tagged      *)
(* value: a string, a number, null, or missing from its object.            *)
(***************************************************************************)
EXTENDS Integers, Sequences, FiniteSets, TLC

\* now       : the clock, time.time() in whole seconds
\* provider  : which adapter class the provider instance is
\* protocol_id : the protocol the instance is asked about
\* cache_ttl : the instance's cache_ttl
\* files     : the cache directory, cache key -> file content
\* last      : what the last operation did (ghost)
\* ncalls    : number of operations so far (ghost)
\* api_config : the process-wide API_CONFIG["swapx_subgraph"] of src/config.py
\* threads   : the position and locals of each thread using the cache file
\* disk      : the blocks of the one cache file the threads share
VARIABLES now, provider, protocol_id, cache_ttl, files, last, ncalls,
          api_config, threads, disk

vars == <<now, provider, protocol_id, cache_ttl, files, last, ncalls,
          api_config, threads, disk>>

\* what one provider instance used from one thread leaves alone
process == <<api_config, threads, disk>>

\* API_CONFIG["swapx_subgraph"] as the module is imported: the names of its
\* headers, and whether GRAPH_API_KEY was set in the environment
API_CONFIG(api_key) ==
    [api_key |-> api_key,
     headers |-> {"Content-Type", "Accept", "User-Agent"}]

NoThreads == <<>>
NoDisk == [exists |-> FALSE, blocks |-> <<>>]

\* one provider, one thread, no API key
SingleProcess ==
    /\ api_config = API_CONFIG(FALSE)
    /\ threads = NoThreads
    /\ disk = NoDisk

(***************************** bounds ***************************************)
\* the clock runs from StartTime to StartTime + MaxTime; time.time() is far
\* larger than any ttl, so StartTime is larger than every ttl of the model
StartTime == 10
MaxTime == 2
\* a behaviour holds at most MaxCalls operations on the provider
MaxCalls == 2

(***************************** text *****************************************)
\* str.lower() on one symbol
LowerSym(c) ==
    CASE c = "A" -> "a"
      [] c = "B" -> "b"
      [] c = "Sonic" -> "sonic"
      [] c = "SONIC" -> "sonic"
      [] c = "Silo-V2" -> "silo-v2"
      [] c = "USDC" -> "usdc"
      [] c = "USD" -> "usd"
      [] c = "C" -> "c"
      [] c = "Ethereum" -> "ethereum"
      [] OTHER -> c

\* str.lower()
Lower(s) == [i \in 1..Len(s) |-> LowerSym(s[i])]

\* the first symbol of str.capitalize(): first letter upper, the rest lower
CapSym(c) ==
    CASE LowerSym(c) = "a" -> "A"
      [] LowerSym(c) = "b" -> "B"
      [] LowerSym(c) = "sonic" -> "Sonic"
      [] LowerSym(c) = "usdc" -> "Usdc"
      [] OTHER -> c

\* str.capitalize()
Capitalize(s) == IF s = <<>> THEN <<>> ELSE <<CapSym(s[1])>> \o Lower(Tail(s))

\* Python's `sub in s` on strings
IsIn(sub, s) ==
    \E i \in 0..(Len(s) - Len(sub)) : SubSeq(s, i + 1, i + Len(sub)) = sub

\* "/" in s
HasSlash(s) == \E i \in 1..Len(s) : s[i] = "/"

(***************************** JSON values **********************************)
JStr(s) == [k |-> "str", s |-> s, m |-> 0, e |-> 0]
\* a number m * 10^e
JNum(m, e) == [k |-> "num", s |-> <<>>, m |-> m, e |-> e]
\* a string holding the decimal literal of m * 10^e (GraphQL BigInt/BigDecimal)
JNumStr(m, e) == [k |-> "numstr", s |-> <<>>, m |-> m, e |-> e]
JNull == [k |-> "null", s |-> <<>>, m |-> 0, e |-> 0]
JMissing == [k |-> "missing", s |-> <<>>, m |-> 0, e |-> 0]

\* dict.get(field, default) on a field value
Get(v, default) == IF v.k = "missing" THEN default ELSE v

\* bool(v)
Truthy(v) ==
    CASE v.k = "str" -> v.s # <<>>
      [] v.k = "numstr" -> TRUE
      [] v.k = "num" -> v.m # 0
      [] OTHER -> FALSE

\* str(v) inside an f-string
Str(v) == IF v.k = "null" THEN <<"None">> ELSE v.s

\* a float m * 10^e; zero has one representation
Dec(m, e) == IF m = 0 THEN [m |-> 0, e |-> 0] ELSE [m |-> m, e |-> e]

\* x / 10^n
Div10(x, n) == Dec(x.m, x.e - n)

(***************************** payloads *************************************)
\* A payload is what an adapter caches: None, a JSON array of raw records,
\* a JSON object (the aggregator's two responses), or a scalar.
\*   items : the array itself, or the object's "data" array
\*   tvls  : the object's "currentChainTvls", a sequence of [chain, tvl]
None == [shape |-> "none", items |-> <<>>, tvls |-> <<>>]
PList(items) == [shape |-> "list", items |-> items, tvls |-> <<>>]
PPools(items) == [shape |-> "pools", items |-> items, tvls |-> <<>>]
PInfo(tvls) == [shape |-> "info", items |-> <<>>, tvls |-> tvls]
PScalar == [shape |-> "scalar", items |-> <<>>, tvls |-> <<>>]

\* Python truthiness of a payload (`if not pools_data`): None and the empty
\* list are falsy; a non-empty object and a non-zero scalar are truthy
PTruthy(p) ==
    CASE p.shape = "none" -> FALSE
      [] p.shape = "list" -> p.items # <<>>
      [] OTHER -> TRUE

(***************************** cache store **********************************)
\* The content of a cache file, as json.load sees it:
\*   kind "text"      : not JSON (json.JSONDecodeError)
\*   kind "nonobject" : JSON, but not an object (a list, a number, null)
\*   kind "object"    : a JSON object; ts is its "timestamp" field, data its
\*                      "data" field (None when the field is missing or null)
\*   by   : ghost, the request that wrote the file (<<>> when written by hand)
FText == [kind |-> "text", ts |-> JMissing, data |-> None, by |-> <<>>]
FNonObject == [kind |-> "nonobject", ts |-> JMissing, data |-> None, by |-> <<>>]
FObject(ts, data, by) == [kind |-> "object", ts |-> ts, data |-> data, by |-> by]

\* os.path.exists(cache_path)
Exists(fs, key) == key \in DOMAIN fs

\* open(cache_path, 'w') succeeds iff the file's directory exists; the only
\* directory the program creates is cache_dir itself, so a key holding "/"
\* names a file in a directory that does not exist (FileNotFoundError, an
\* IOError)
Writable(key) == ~HasSlash(key)

\* ProviderBase._get_cached_data: [raised, value]
GetCachedDataGe(fs, key, t, ttl) ==
    IF ~Exists(fs, key) THEN [raised |-> FALSE, value |-> None]
    ELSE LET c == fs[key] IN
         CASE c.kind = "text" -> [raised |-> FALSE, value |-> None]
           [] c.kind = "nonobject" -> [raised |-> TRUE, value |-> None]
           [] OTHER ->
              LET ts == Get(c.ts, JNum(0, 0)) IN
              IF ts.k # "num" THEN [raised |-> TRUE, value |-> None]
              ELSE IF t - ts.m >= ttl THEN [raised |-> FALSE, value |-> None]
              ELSE [raised |-> FALSE, value |-> c.data]

GetCachedData(fs, key, t, ttl) ==
    IF ~Exists(fs, key) THEN [raised |-> FALSE, value |-> None]
    ELSE LET c == fs[key] IN
         CASE c.kind = "text" -> [raised |-> FALSE, value |-> None]
           [] c.kind = "nonobject" -> [raised |-> TRUE, value |-> None]
           [] OTHER ->
              LET ts == Get(c.ts, JNum(0, 0)) IN
              IF ts.k # "num" THEN [raised |-> TRUE, value |-> None]
              ELSE IF t - ts.m > ttl THEN [raised |-> FALSE, value |-> None]
              ELSE [raised |-> FALSE, value |-> c.data]

\* ProviderBase._save_to_cache: the file system afterwards
SaveToCache(fs, key, data, t, by) ==
    IF Writable(key)
    THEN [k \in (DOMAIN fs) \cup {key} |->
             IF k = key THEN FObject(JNum(t, 0), data, by) ELSE fs[k]]
    ELSE fs

(***************************** configuration ********************************)
\* src/config.py PROTOCOL_CONFIG in dict order, the DefiLlama identifiers of
\* each entry ("swapx" is written twice; the second value stays at the first
\* position).  A protocol id outside the table gets the empty configuration.
Silo == <<"silo">>
Swapx == <<"swapx">>

PROTOCOL_CONFIG ==
    <<[id |-> Swapx, slug |-> <<"swapx">>, project |-> <<"swapx">>],
      [id |-> Silo, slug |-> <<"silo-finance">>, project |-> <<"silo-v2">>],
      [id |-> <<"aave">>, slug |-> <<"morpho-aavev3">>, project |-> <<"aave-v3">>],
      [id |-> <<"beets">>, slug |-> <<"beets-lst">>, project |-> <<"beets-dex">>],
      [id |-> <<"curve">>, slug |-> <<"curve-dex">>, project |-> <<"curve-dex">>],
      [id |-> <<"pendle">>, slug |-> <<"pendle">>, project |-> <<"pendle">>],
      [id |-> <<"euler">>, slug |-> <<"euler-v2">>, project |-> <<"euler-v2">>]>>

Configured(pid) == \E i \in 1..Len(PROTOCOL_CONFIG) : PROTOCOL_CONFIG[i].id = pid

\* get_config("protocol", pid, {})
ConfigOf(pid) ==
    PROTOCOL_CONFIG[CHOOSE i \in 1..Len(PROTOCOL_CONFIG) : PROTOCOL_CONFIG[i].id = pid]

\* protocol_config.get("defillama_slug", protocol_id)
DefillamaSlug(pid) == IF Configured(pid) THEN ConfigOf(pid).slug ELSE pid

\* protocol_config.get("defillama_project", defillama_slug)
DefillamaProject(pid) ==
    IF Configured(pid) THEN ConfigOf(pid).project ELSE DefillamaSlug(pid)

(***************************** result sets **********************************)
ResultSetAlwaysSuccess(data) ==
    [status |-> "success", count |-> Len(data), data |-> data]

ResultSet(data) ==
    [status |-> IF data # <<>> THEN "success" ELSE "no_data",
     count |-> Len(data), data |-> data]

ErrorResult == [status |-> "error", count |-> 0, data |-> <<>>]

\* what an adapter call did: whether it raised, the result set it returned,
\* the file system it left, its transport requests in order ("ok"/"fail"),
\* how many cache reads and writes it made, the cache key it used, and
\* whether the payload came from the cache
Outcome(raised, result, fs, reqs, reads, writes, key, hit) ==
    [raised |-> raised, result |-> result, fs |-> fs, reqs |-> reqs,
     reads |-> reads, writes |-> writes, key |-> key, hit |-> hit]

\* a transport response: a failure (requests.RequestException) or a body
Fail == [ok |-> FALSE, errors |-> FALSE, data |-> "missing", payload |-> None]
\* a 2xx body; for GraphQL: errors = it has a top-level "errors" array, data =
\* its "data" member ("object", "null" or "missing"), payload = the entity list
Body(errors, data, payload) ==
    [ok |-> TRUE, errors |-> errors, data |-> data, payload |-> payload]

\* cache key of the two subgraph adapters:
\* f"{prefix}{protocol_id}" + f"_{token_pair}" + f"_{chain}"
CacheKey(prefix, pid, tp, chain) ==
    <<prefix>> \o pid
      \o (IF tp # <<>> THEN <<"_">> \o tp ELSE <<>>)
      \o (IF chain # <<>> THEN <<"_">> \o chain ELSE <<>>)

\* the request a cache file was written for (ghost)
Request(adapter, pid, tp, chain) == <<adapter, pid, tp, chain>>

\* the result slot of a call that raised instead of returning
NoResult == [status |-> "raised", count |-> 0, data |-> <<>>]

\* float(v): [ok, x]; a non-numeric string is a ValueError, null a TypeError
Float(v) ==
    IF v.k \in {"num", "numstr"} THEN [ok |-> TRUE, x |-> Dec(v.m, v.e)]
    ELSE [ok |-> FALSE, x |-> Dec(0, 0)]

\* `self._get_cached_data(cache_key) if self.cache_ttl > 0 else None`:
\* [raised, value, reads], reads = the number of cache reads made
CacheLookupGe(fs, key, t, ttl) ==
    IF ttl >= 0
    THEN LET r == GetCachedData(fs, key, t, ttl)
         IN  [raised |-> r.raised, value |-> r.value, reads |-> 1]
    ELSE [raised |-> FALSE, value |-> None, reads |-> 0]

CacheLookup(fs, key, t, ttl) ==
    IF ttl > 0
    THEN LET r == GetCachedData(fs, key, t, ttl)
         IN  [raised |-> r.raised, value |-> r.value, reads |-> 1]
    ELSE [raised |-> FALSE, value |-> None, reads |-> 0]

\* `if self.cache_ttl > 0: self._save_to_cache(cache_key, data)`:
\* [fs, writes], writes = the number of cache writes made
CacheStore(fs, key, data, t, ttl, by) ==
    IF ttl > 0
    THEN [fs |-> SaveToCache(fs, key, data, t, by), writes |-> 1]
    ELSE [fs |-> fs, writes |-> 0]

(***************************** KingdomSubgraph ******************************)
\* A raw pool of the Kingdom subgraph: [id, symbol, totalValueLockedUSD].
\* No protocol configures "kingdom_subgraph", so entity type and field
\* mapping are the defaults (clPools, totalValueLockedUSD, symbol).  The
\* display-only fields liquidity, volume_usd and fee_tier are left out.
KingdomRecordE3(pool, pid, chain) ==
    LET f == Float(Get(pool.totalValueLockedUSD, JNum(0, 0))) IN
    [protocol |-> JStr(pid),
     protocol_slug |-> JStr(pid),
     chain |-> JStr(IF chain # <<>> THEN chain ELSE <<"sonic">>),
     pool_name |-> Get(pool.symbol, Get(pool.id, JStr(<<"Unknown">>))),
     pool_id |-> Get(pool.id, JStr(<<"Unknown">>)),
     tvl |-> IF f.ok THEN Div10(f.x, 3) ELSE Dec(0, 0),
     provider |-> JStr(<<"KingdomSubgraph">>),
     raw_data |-> pool]

KingdomRecord(pool, pid, chain) ==
    LET f == Float(Get(pool.totalValueLockedUSD, JNum(0, 0))) IN
    [protocol |-> JStr(pid),
     protocol_slug |-> JStr(pid),
     chain |-> JStr(IF chain # <<>> THEN chain ELSE <<"sonic">>),
     pool_name |-> Get(pool.symbol, Get(pool.id, JStr(<<"Unknown">>))),
     pool_id |-> Get(pool.id, JStr(<<"Unknown">>)),
     tvl |-> IF f.ok THEN Div10(f.x, 6) ELSE Dec(0, 0),
     provider |-> JStr(<<"KingdomSubgraph">>),
     raw_data |-> pool]

\* subgraph_config.get("default_filters", {"symbol_contains": "USD"}): no
\* entry of PROTOCOL_CONFIG has a "kingdom_subgraph" section, so every
\* protocol gets the fallback filter set
DefaultFilters(pid) == <<[key |-> <<"symbol_contains">>, value |-> JStr(<<"USD">>)]>>

\* the where clause of _build_query, a sequence of [key, value]; a string
\* value is matched by the key's _nocase form
KingdomWhereNoFilter(pid, tp) ==
    [i \in 1..Len(DefaultFilters(pid)) |->
        LET f == DefaultFilters(pid)[i] IN
        IF f.value.k = "str"
        THEN [key |-> f.key \o <<"_nocase">>, value |-> f.value]
        ELSE [key |-> f.key, value |-> f.value]]

KingdomWhere(pid, tp) ==
    IF tp # <<>>
    THEN <<[key |-> <<"symbol_contains", "_nocase">>, value |-> JStr(tp)]>>
    ELSE [i \in 1..Len(DefaultFilters(pid)) |->
             LET f == DefaultFilters(pid)[i] IN
             IF f.value.k = "str"
             THEN [key |-> f.key \o <<"_nocase">>, value |-> f.value]
             ELSE [key |-> f.key, value |-> f.value]]

\* KingdomSubgraphProvider._build_query: entity, ordering and where clause
KingdomBuildQuery(pid, entity_type, tp) ==
    [sent |-> TRUE, entity |-> entity_type,
     orderBy |-> "totalValueLockedUSD", orderDirection |-> "desc",
     where |-> KingdomWhere(pid, tp)]

NoQuery ==
    [sent |-> FALSE, entity |-> "", orderBy |-> "", orderDirection |-> "",
     where |-> <<>>]

\* the subgraph's answer to a where clause: the pools every part admits
\* (symbol_contains_nocase: the value occurs in the symbol, any case)
Admits(where, pool) ==
    \A i \in 1..Len(where) :
        where[i].key = <<"symbol_contains", "_nocase">> =>
            /\ pool.symbol.k = "str"
            /\ IsIn(Lower(where[i].value.s), Lower(pool.symbol.s))

Served(pools, where) == SelectSeq(pools, LAMBDA q : Admits(where, q))

\* lines 169-214: the loop over pools_data and the returned result set
KingdomFormat(p, pid, chain, fs, reqs, reads, writes, key, hit) ==
    IF p.shape # "list"
    THEN Outcome(TRUE, NoResult, fs, reqs, reads, writes, key, hit)
    ELSE Outcome(FALSE,
                 ResultSet([i \in 1..Len(p.items) |->
                               KingdomRecord(p.items[i], pid, chain)]),
                 fs, reqs, reads, writes, key, hit)

\* KingdomSubgraphProvider.get_protocol_tvl; resp is the transport's answer
\* to the one request the call may make
KingdomGetProtocolTvlDropStale(fs, t, ttl, pid, tp, chain, resp) ==
    LET key == CacheKey("kingdom_subgraph_", pid, tp, chain)
        by == Request("kingdom", pid, tp, chain)
        c == CacheLookup(fs, key, t, ttl)
        rd == c.reads
    IN  IF c.raised THEN Outcome(TRUE, NoResult, fs, <<>>, rd, 0, key, FALSE)
        ELSE IF PTruthy(c.value)
        THEN KingdomFormat(c.value, pid, chain, fs, <<>>, rd, 0, key, TRUE)
        ELSE IF ~resp.ok
        THEN Outcome(FALSE, ErrorResult,
                     [k \in (DOMAIN fs) \ {key} |-> fs[k]],
                     <<"fail">>, rd, 0, key, FALSE)
        ELSE IF resp.data = "null"
        THEN \* `entity_type in result["data"]` is a TypeError, caught
             Outcome(FALSE, ErrorResult, fs, <<"ok">>, rd, 0, key, FALSE)
        ELSE LET pools == IF resp.data = "object" THEN resp.payload
                          ELSE PList(<<>>)
                 w == CacheStore(fs, key, pools, t, ttl, by)
             IN  KingdomFormat(pools, pid, chain, w.fs,
                               <<"ok">>, rd, w.writes, key, FALSE)

KingdomGetProtocolTvl(fs, t, ttl, pid, tp, chain, resp) ==
    LET key == CacheKey("kingdom_subgraph_", pid, tp, chain)
        by == Request("kingdom", pid, tp, chain)
        c == CacheLookup(fs, key, t, ttl)
        rd == c.reads
    IN  IF c.raised THEN Outcome(TRUE, NoResult, fs, <<>>, rd, 0, key, FALSE)
        ELSE IF PTruthy(c.value)
        THEN KingdomFormat(c.value, pid, chain, fs, <<>>, rd, 0, key, TRUE)
        ELSE IF ~resp.ok
        THEN Outcome(FALSE, ErrorResult, fs, <<"fail">>, rd, 0, key, FALSE)
        ELSE IF resp.data = "null"
        THEN \* `entity_type in result["data"]` is a TypeError, caught
             Outcome(FALSE, ErrorResult, fs, <<"ok">>, rd, 0, key, FALSE)
        ELSE LET pools == IF resp.data = "object" THEN resp.payload
                          ELSE PList(<<>>)
                 w == CacheStore(fs, key, pools, t, ttl, by)
             IN  KingdomFormat(pools, pid, chain, w.fs,
                               <<"ok">>, rd, w.writes, key, FALSE)

(***************************** SwapxSubgraph ********************************)
\* A raw vault of the SwapX subgraph: [id, tokenA, tokenB, totalSupply,
\* vaultCount].  The display-only fields liquidity and fee_tier are left out.

\* address[-6:]
Last6(s) == SubSeq(s, IF Len(s) > 6 THEN Len(s) - 5 ELSE 1, Len(s))

\* `token_a_address[-6:] if token_a_address else "Unknown"`
ShortToken(a) == IF Truthy(a) THEN Last6(a.s) ELSE <<"Unknown">>

\* SwapxSubgraphProvider._calculate_tvl_estimate
CalculateTvlEstimateE6(vault) ==
    IF Truthy(vault.totalSupply)
    THEN LET f == Float(vault.totalSupply) IN
         IF f.ok THEN Div10(f.x, 6) ELSE Dec(0, 0)
    ELSE IF Truthy(vault.vaultCount)
    THEN IF vault.vaultCount.k \in {"num", "numstr"} /\ vault.vaultCount.e >= 0
         THEN Div10(Dec(vault.vaultCount.m, vault.vaultCount.e), 1)
         ELSE IF vault.vaultCount.k = "num"
         THEN \* int() of a float drops its fraction
              Dec(vault.vaultCount.m \div 10^(0 - vault.vaultCount.e), -1)
         ELSE Dec(0, 0)
    ELSE Dec(0, 0)

CalculateTvlEstimate(vault) ==
    IF Truthy(vault.totalSupply)
    THEN LET f == Float(vault.totalSupply) IN
         IF f.ok THEN Div10(f.x, 12) ELSE Dec(0, 0)
    ELSE IF Truthy(vault.vaultCount)
    THEN IF vault.vaultCount.k \in {"num", "numstr"} /\ vault.vaultCount.e >= 0
         THEN Div10(Dec(vault.vaultCount.m, vault.vaultCount.e), 1)
         ELSE IF vault.vaultCount.k = "num"
         THEN \* int() of a float drops its fraction
              Dec(vault.vaultCount.m \div 10^(0 - vault.vaultCount.e), -1)
         ELSE Dec(0, 0)
    ELSE Dec(0, 0)

\* token_pair.split("/")
RECURSIVE Split(_)
Split(s) ==
    IF ~HasSlash(s) THEN <<s>>
    ELSE LET i == CHOOSE j \in 1..Len(s) :
                      s[j] = "/" /\ \A h \in 1..(j - 1) : s[h] # "/"
         IN  <<SubSeq(s, 1, i - 1)>> \o Split(SubSeq(s, i + 1, Len(s)))

\* x.lower() on a token address: None has no lower() (AttributeError)
CanLower(a) == a.k \in {"str", "numstr"}

\* lines 273-292, the client-side token pair filter: [raised, matched]
SwapxMatch(vault, tp) ==
    LET a == Get(vault.tokenA, JStr(<<>>))
        b == Get(vault.tokenB, JStr(<<>>))
        tokens == IF HasSlash(tp) THEN Split(tp) ELSE <<tp>>
        inA(x) == IsIn(Lower(x), Lower(a.s))
        inB(x) == IsIn(Lower(x), Lower(b.s))
    IN  IF Len(tokens) = 2
        THEN IF ~CanLower(a) THEN [raised |-> TRUE, matched |-> FALSE]
             ELSE IF ~inA(tokens[1]) THEN [raised |-> FALSE, matched |-> FALSE]
             ELSE IF ~CanLower(b) THEN [raised |-> TRUE, matched |-> FALSE]
             ELSE [raised |-> FALSE, matched |-> inB(tokens[2])]
        ELSE IF ~CanLower(a) THEN [raised |-> TRUE, matched |-> FALSE]
             ELSE IF inA(tp) THEN [raised |-> FALSE, matched |-> TRUE]
             ELSE IF ~CanLower(b) THEN [raised |-> TRUE, matched |-> FALSE]
             ELSE [raised |-> FALSE, matched |-> inB(tp)]

SwapxRecord(vault, pid, chain) ==
    [protocol |-> JStr(pid),
     protocol_slug |-> JStr(pid),
     chain |-> JStr(IF chain # <<>> THEN chain ELSE <<"sonic">>),
     pool_name |-> JStr(<<"Token-">> \o ShortToken(Get(vault.tokenA, JStr(<<>>)))
                        \o <<"/", "Token-">>
                        \o ShortToken(Get(vault.tokenB, JStr(<<>>)))),
     pool_id |-> Get(vault.id, JStr(<<"Unknown">>)),
     tvl |-> CalculateTvlEstimate(vault),
     provider |-> JStr(<<"SwapxSubgraph">>),
     raw_data |-> vault]

\* lines 236-312: the loop over vaults_data and the returned result set
SwapxFormat(p, pid, tp, chain, fs, reqs, reads, writes, key, hit) ==
    IF p.shape # "list"
       \/ (tp # <<>> /\ \E i \in 1..Len(p.items) : SwapxMatch(p.items[i], tp).raised)
    THEN Outcome(TRUE, NoResult, fs, reqs, reads, writes, key, hit)
    ELSE LET kept == SelectSeq(p.items,
                               LAMBDA v : tp = <<>> \/ SwapxMatch(v, tp).matched)
         IN  Outcome(FALSE,
                     ResultSet([i \in 1..Len(kept) |->
                                   SwapxRecord(kept[i], pid, chain)]),
                     fs, reqs, reads, writes, key, hit)

\* SwapxSubgraphProvider.get_protocol_tvl
SwapxGetProtocolTvl(fs, t, ttl, pid, tp, chain, resp) ==
    LET key == CacheKey("swapx_subgraph_", pid, tp, chain)
        by == Request("swapx", pid, tp, chain)
        c == CacheLookup(fs, key, t, ttl)
        rd == c.reads
    IN  IF c.raised THEN Outcome(TRUE, NoResult, fs, <<>>, rd, 0, key, FALSE)
        ELSE IF PTruthy(c.value)
        THEN SwapxFormat(c.value, pid, tp, chain, fs, <<>>, rd, 0, key, TRUE)
        ELSE IF ~resp.ok
        THEN Outcome(FALSE, ErrorResult, fs, <<"fail">>, rd, 0, key, FALSE)
        ELSE IF resp.errors
        THEN \* _execute_query raises on a top-level "errors" array, caught
             Outcome(FALSE, ErrorResult, fs, <<"fail">>, rd, 0, key, FALSE)
        ELSE IF resp.data = "null"
        THEN Outcome(FALSE, ErrorResult, fs, <<"ok">>, rd, 0, key, FALSE)
        ELSE LET vaults == IF resp.data = "object" THEN resp.payload
                           ELSE PList(<<>>)
                 w == CacheStore(fs, key, vaults, t, ttl, by)
             IN  SwapxFormat(vaults, pid, tp, chain, w.fs,
                             <<"ok">>, rd, w.writes, key, FALSE)

(***************************** DefiLlama ************************************)
\* A raw pool of the yields endpoint:
\* [project, chain, symbol, poolMeta, pool, tvlUsd, apy].

\* pool.get(field, "").lower(): None (a null field) has no lower()
LowerOf(v) == Lower(Get(v, JStr(<<>>)).s)

\* (pool.get(field, "") or "").lower()
LowerOrEmpty(v) == IF Truthy(v) THEN Lower(v.s) ELSE <<>>

\* lines 198-227: one formatted pool
LlamaRecord(pool, protocol) ==
    LET v == Get(pool.tvlUsd, JNum(0, 0))
        symbol == Get(pool.symbol, JStr(<<"Unknown">>))
    IN  [protocol |-> Get(pool.project, JStr(<<"Unknown">>)),
         protocol_slug |-> JStr(protocol),
         chain |-> Get(pool.chain, JStr(<<"Unknown">>)),
         pool_name |-> IF Truthy(pool.poolMeta)
                       THEN JStr(Str(symbol) \o <<"-">> \o Str(pool.poolMeta))
                       ELSE symbol,
         pool_id |-> Get(pool.pool, JStr(<<"Unknown">>)),
         tvl |-> IF v.k = "num" THEN Div10(Dec(v.m, v.e), 6) ELSE Dec(0, 0),
         apy |-> Get(pool.apy, JNum(0, 0)),
         provider |-> JStr(<<"DefiLlama">>)]

\* lines 180-233: filters, formatting and the returned result set
LlamaFilterAnyChain(p, protocol, chain, pool_name, fs, reqs, reads, writes, hit) ==
    LET key == <<"pools">>
        raise == Outcome(TRUE, NoResult, fs, reqs, reads, writes, key, hit)
    IN  IF p.shape \notin {"pools", "info"} THEN raise
        ELSE
        LET all == p.items
            byProject ==
                IF protocol # <<>>
                THEN SelectSeq(all, LAMBDA q :
                         q.project.k \in {"str", "missing"}
                         /\ LowerOf(q.project) = Lower(protocol))
                ELSE all
            byChain ==
                IF chain # <<>>
                THEN SelectSeq(byProject, LAMBDA q :
                         q.chain.k \in {"str", "missing"})
                ELSE byProject
            byName ==
                IF pool_name # <<>>
                THEN SelectSeq(byChain, LAMBDA q :
                         IsIn(Lower(pool_name), LowerOrEmpty(q.symbol))
                         \/ IsIn(Lower(pool_name), LowerOrEmpty(q.poolMeta)))
                ELSE byChain
        IN  IF protocol # <<>>
               /\ \E i \in 1..Len(all) : all[i].project.k \notin {"str", "missing"}
            THEN raise
            ELSE IF chain # <<>>
               /\ \E i \in 1..Len(byProject) :
                     byProject[i].chain.k \notin {"str", "missing"}
            THEN raise
            ELSE Outcome(FALSE,
                         ResultSet([i \in 1..Len(byName) |->
                                       LlamaRecord(byName[i], protocol)]),
                         fs, reqs, reads, writes, key, hit)

LlamaFilter(p, protocol, chain, pool_name, fs, reqs, reads, writes, hit) ==
    LET key == <<"pools">>
        raise == Outcome(TRUE, NoResult, fs, reqs, reads, writes, key, hit)
    IN  IF p.shape \notin {"pools", "info"} THEN raise
        ELSE
        LET all == p.items
            byProject ==
                IF protocol # <<>>
                THEN SelectSeq(all, LAMBDA q :
                         q.project.k \in {"str", "missing"}
                         /\ LowerOf(q.project) = Lower(protocol))
                ELSE all
            byChain ==
                IF chain # <<>>
                THEN SelectSeq(byProject, LAMBDA q :
                         q.chain.k \in {"str", "missing"}
                         /\ LowerOf(q.chain) = Lower(chain))
                ELSE byProject
            byName ==
                IF pool_name # <<>>
                THEN SelectSeq(byChain, LAMBDA q :
                         IsIn(Lower(pool_name), LowerOrEmpty(q.symbol))
                         \/ IsIn(Lower(pool_name), LowerOrEmpty(q.poolMeta)))
                ELSE byChain
        IN  IF protocol # <<>>
               /\ \E i \in 1..Len(all) : all[i].project.k \notin {"str", "missing"}
            THEN raise
            ELSE IF chain # <<>>
               /\ \E i \in 1..Len(byProject) :
                     byProject[i].chain.k \notin {"str", "missing"}
            THEN raise
            ELSE Outcome(FALSE,
                         ResultSet([i \in 1..Len(byName) |->
                                       LlamaRecord(byName[i], protocol)]),
                         fs, reqs, reads, writes, key, hit)

\* DefiLlamaProvider.get_pools
LlamaGetPools(fs, t, ttl, protocol, chain, pool_name, resp) ==
    LET key == <<"pools">>
        by == Request("defillama", <<"pools">>, <<>>, <<>>)
        c == CacheLookup(fs, key, t, ttl)
        rd == c.reads
    IN  IF c.raised THEN Outcome(TRUE, NoResult, fs, <<>>, rd, 0, key, FALSE)
        ELSE IF PTruthy(c.value)
        THEN LlamaFilter(c.value, protocol, chain, pool_name, fs, <<>>, rd, 0, TRUE)
        ELSE IF ~resp.ok
        THEN Outcome(FALSE, ErrorResult, fs, <<"fail">>, rd, 0, key, FALSE)
        ELSE LET w == CacheStore(fs, key, resp.payload, t, ttl, by)
             IN  LlamaFilter(resp.payload, protocol, chain, pool_name, w.fs,
                             <<"ok">>, rd, w.writes, FALSE)

\* DefiLlamaProvider.get_protocol_info: [raised, value, fs, reqs, reads, writes]
LlamaGetProtocolInfo(fs, t, ttl, slug, resp) ==
    LET key == <<"protocol_info_">> \o slug
        by == Request("defillama", <<"protocol_info_">> \o slug, <<>>, <<>>)
        c == CacheLookup(fs, key, t, ttl)
        rd == c.reads
    IN  IF c.raised
        THEN [raised |-> TRUE, value |-> None, fs |-> fs, reqs |-> <<>>,
              reads |-> rd, writes |-> 0]
        ELSE IF PTruthy(c.value)
        THEN [raised |-> FALSE, value |-> c.value, fs |-> fs, reqs |-> <<>>,
              reads |-> rd, writes |-> 0]
        ELSE IF ~resp.ok
        THEN [raised |-> TRUE, value |-> None, fs |-> fs, reqs |-> <<"fail">>,
              reads |-> rd, writes |-> 0]
        ELSE LET w == CacheStore(fs, key, resp.payload, t, ttl, by)
             IN  [raised |-> FALSE, value |-> resp.payload, fs |-> w.fs,
                  reqs |-> <<"ok">>, reads |-> rd, writes |-> w.writes]

\* dict.get(chain_key, 0) on currentChainTvls
ChainTvl(tvls, chain_key) ==
    IF \E i \in 1..Len(tvls) : tvls[i].chain = chain_key
    THEN tvls[CHOOSE i \in 1..Len(tvls) : tvls[i].chain = chain_key].tvl
    ELSE JNum(0, 0)

\* lines 102-146, the protocol-level fallback after get_pools returned `pools`
LlamaFallback(pools, t, ttl, pid, tp, chain, resp) ==
    LET slug == DefillamaSlug(pid)
        project == DefillamaProject(pid)
        info == LlamaGetProtocolInfo(pools.fs, t, ttl, slug, resp)
        reqs == pools.reqs \o info.reqs
        reads == pools.reads + info.reads
        writes == pools.writes + info.writes
        error == Outcome(FALSE, ErrorResult, info.fs, reqs, reads, writes,
                         pools.key, pools.hit)
        chain_key == IF chain # <<>> THEN Capitalize(chain) ELSE <<"Sonic">>
        tvl_value == ChainTvl(info.value.tvls, chain_key)
    IN  IF info.raised THEN error
        ELSE IF info.value.shape \notin {"pools", "info"} THEN error
        ELSE IF tvl_value.k # "num" THEN error
        ELSE Outcome(FALSE,
                     [status |-> "success", count |-> 1,
                      data |-> <<[protocol |-> JStr(project),
                                  protocol_slug |-> JStr(slug),
                                  chain |-> JStr(IF chain # <<>> THEN chain
                                                 ELSE <<"All">>),
                                  pool_name |-> JStr(IF tp # <<>> THEN tp
                                                     ELSE <<"All Pools (Aggregate)">>),
                                  tvl |-> Div10(Dec(tvl_value.m, tvl_value.e), 6),
                                  apy |-> JNum(0, 0),
                                  provider |-> JStr(<<"DefiLlama">>)]>>],
                     info.fs, reqs, reads, writes, pools.key, pools.hit)

\* DefiLlamaProvider.get_protocol_tvl; resp1 answers the pools request and
\* resp2 the protocol request, when the call makes them
LlamaGetProtocolTvl(fs, t, ttl, pid, tp, chain, resp1, resp2) ==
    LET pools == LlamaGetPools(fs, t, ttl, DefillamaProject(pid), chain, tp, resp1)
    IN  IF pools.raised THEN pools
        ELSE IF pools.result.status = "success" /\ pools.result.data # <<>>
        THEN pools
        ELSE LlamaFallback(pools, t, ttl, pid, tp, chain, resp2)

(***************************** inputs ***************************************)
\* cache_ttl of the instance: caching disabled (negative, zero) or one second
TTLs == {-1, 0, 1}

Protocols == {Silo, Swapx}
TokenPairs == {<<>>, <<"sonic">>}
Chains == {<<>>, <<"sonic">>}

\* raw records the upstream services may send
KPool1 == [id |-> JStr(<<"k1">>), symbol |-> JStr(<<"USD", "C">>),
           totalValueLockedUSD |-> JNumStr(25, 5)]
KPool3 == [id |-> JStr(<<"k3">>), symbol |-> JStr(<<"Sonic", "-", "USD">>),
           totalValueLockedUSD |-> JNum(4, 6)]
Vault1 == [id |-> JStr(<<"v1">>),
           tokenA |-> JStr(<<"0", "x", "a", "b", "a", "a", "b", "b">>),
           tokenB |-> JStr(<<"0", "x", "b", "b", "a", "b", "a", "a">>),
           totalSupply |-> JNumStr(5, 12), vaultCount |-> JMissing]
Vault3 == [id |-> JStr(<<"v3">>),
           tokenA |-> JStr(<<"0", "x", "a", "b", "a", "a", "b", "b">>),
           tokenB |-> JStr(<<"0", "x", "b", "b", "a", "b", "a", "a">>),
           totalSupply |-> JMissing, vaultCount |-> JNull]
VaultNull == [id |-> JStr(<<"v2">>), tokenA |-> JNull, tokenB |-> JNull,
              totalSupply |-> JMissing, vaultCount |-> JNum(3, 0)]
LPool1 == [project |-> JStr(<<"silo-v2">>), chain |-> JStr(<<"Sonic">>),
           symbol |-> JStr(<<"USDC">>), poolMeta |-> JNull,
           pool |-> JStr(<<"p1">>), tvlUsd |-> JNum(25, 5), apy |-> JNum(4, 0)]
LPool2 == [project |-> JStr(<<"Silo-V2">>), chain |-> JStr(<<"Ethereum">>),
           symbol |-> JStr(<<"USDC">>), poolMeta |-> JStr(<<"sonic">>),
           pool |-> JStr(<<"p3">>), tvlUsd |-> JNum(4, 6), apy |-> JMissing]
LPoolNull == [project |-> JNull, chain |-> JNull,
              symbol |-> JNull, poolMeta |-> JMissing,
              pool |-> JStr(<<"p2">>), tvlUsd |-> JNull, apy |-> JNull]

KingdomLists == {<<>>, <<KPool3, KPool1>>}
SwapxLists == {<<>>, <<VaultNull>>, <<Vault1, Vault3>>}
LlamaLists == {<<>>, <<LPoolNull>>, <<LPool1, LPool2>>}

\* pool filters given to the SwapX adapter: none, or a piece of a token
\* address (the adapter matches the filter against the addresses)
SwapxTokenPairs == {<<>>, <<"0", "x", "a">>}
InfoTvls == {<<[chain |-> <<"Sonic">>, tvl |-> JNull]>>,
             <<[chain |-> <<"Ethereum">>, tvl |-> JNum(3, 6)],
               [chain |-> <<"Sonic">>, tvl |-> JNum(7, 6)]>>}

\* answers of a GraphQL endpoint: failure, a data object holding the entity
\* list, or a 2xx body with an "errors" array (without data, or data null)
GqlResponses(lists) ==
    {Fail} \cup {Body(FALSE, "object", PList(l)) : l \in lists}
           \cup {Body(TRUE, "missing", None), Body(TRUE, "null", None)}

\* answers of the REST endpoints
PoolsResponses == {Fail} \cup {Body(FALSE, "object", PPools(l)) : l \in LlamaLists}
InfoResponses == {Fail} \cup {Body(FALSE, "object", PInfo(m)) : m \in InfoTvls}

\* cache files an earlier run or another program may have left behind
HandContents == {FText, FNonObject, FObject(JNull, None, <<>>)}
HandKey(p, pid) ==
    CASE p = "kingdom" -> CacheKey("kingdom_subgraph_", pid, <<>>, <<>>)
      [] p = "swapx" -> CacheKey("swapx_subgraph_", pid, <<>>, <<>>)
      [] OTHER -> <<"protocol_info_">> \o DefillamaSlug(pid)

NoFiles == [k \in {} |-> FText]
OneFile(key, c) == [k \in {key} |-> c]

(***************************** the adapters' runs ***************************)
Call(adapter, pid, tp, chain, out) ==
    [op |-> "call", adapter |-> adapter, pid |-> pid, tp |-> tp,
     chain |-> chain, raised |-> out.raised, result |-> out.result,
     reqs |-> out.reqs, reads |-> out.reads, writes |-> out.writes,
     key |-> out.key, hit |-> out.hit]

Idle == [op |-> "init"]

Init ==
    /\ now = StartTime
    /\ provider \in {"kingdom", "swapx", "defillama"}
    /\ protocol_id \in Protocols
    /\ cache_ttl \in TTLs
    /\ files \in {NoFiles} \cup {OneFile(HandKey(provider, protocol_id), c) : c \in HandContents}
    /\ last = Idle
    /\ ncalls = 0
    /\ SingleProcess

\* time passes between calls
Tick ==
    /\ now < StartTime + MaxTime
    /\ now' = now + 1
    /\ UNCHANGED <<provider, protocol_id, cache_ttl, files, last, ncalls>>
    /\ UNCHANGED process

\* the call sent its request and the 2xx body it received holds a top-level
\* "errors" array
GotErrors(out, resp) == out.reqs # <<>> /\ resp.ok /\ resp.errors

\* last.query (ghost): the query this call sent, if it sent one
\* last.errors (ghost): the answer to the call's request held "errors"
KingdomCall ==
    /\ provider = "kingdom"
    /\ ncalls < MaxCalls
    /\ \E pid \in {protocol_id}, tp \in TokenPairs, chain \in Chains :
       \E resp \in GqlResponses({Served(l, KingdomWhere(pid, tp)) : l \in KingdomLists}) :
          LET out == KingdomGetProtocolTvl(files, now, cache_ttl, pid, tp, chain, resp)
          IN  /\ files' = out.fs
              /\ last' = Call("kingdom", pid, tp, chain, out)
                            @@ [query |-> IF out.reqs # <<>>
                                          THEN KingdomBuildQuery(pid, "clPools", tp)
                                          ELSE NoQuery,
                                errors |-> GotErrors(out, resp)]
    /\ ncalls' = ncalls + 1
    /\ UNCHANGED <<now, provider, protocol_id, cache_ttl>>
    /\ UNCHANGED process

SwapxCall ==
    /\ provider = "swapx"
    /\ ncalls < MaxCalls
    /\ \E pid \in {protocol_id}, tp \in SwapxTokenPairs, chain \in Chains,
          resp \in GqlResponses(SwapxLists) :
          LET out == SwapxGetProtocolTvl(files, now, cache_ttl, pid, tp, chain, resp)
          IN  /\ files' = out.fs
              /\ last' = Call("swapx", pid, tp, chain, out)
                            @@ [errors |-> GotErrors(out, resp)]
    /\ ncalls' = ncalls + 1
    /\ UNCHANGED <<now, provider, protocol_id, cache_ttl>>
    /\ UNCHANGED process

\* the call requested /protocol/{slug} and the request succeeded: it is the
\* request after the pools request, or the only one when the pools came from
\* the cache
InfoFetched(out) ==
    \/ (out.hit /\ out.reqs = <<"ok">>)
    \/ (~out.hit /\ Len(out.reqs) = 2 /\ out.reqs[2] = "ok")

\* last.info (ghost): the body of /protocol/{slug} this call received
LlamaCall ==
    /\ provider = "defillama"
    /\ ncalls < MaxCalls
    /\ \E pid \in {protocol_id}, tp \in TokenPairs, chain \in Chains,
          resp1 \in PoolsResponses, resp2 \in InfoResponses :
          LET out == LlamaGetProtocolTvl(files, now, cache_ttl, pid, tp, chain,
                                         resp1, resp2)
          IN  /\ files' = out.fs
              /\ last' = Call("defillama", pid, tp, chain, out)
                            @@ [info |-> IF InfoFetched(out) THEN resp2.payload
                                         ELSE None]
    /\ ncalls' = ncalls + 1
    /\ UNCHANGED <<now, provider, protocol_id, cache_ttl>>
    /\ UNCHANGED process

Next == Tick \/ KingdomCall \/ SwapxCall \/ LlamaCall

Spec == Init /\ [][Next]_vars

(***************************** the cache store alone ************************)
\* keys and payloads handed to the store: the SwapX adapter's keys for no
\* filter and for the token pair "a/b"
StoreKeys == {CacheKey("swapx_subgraph_", Swapx, tp, <<>>) :
                 tp \in {<<>>, <<"a", "/", "b">>}}
StorePayloads == {PList(<<>>), PList(<<Vault1>>)}

\* files found in the cache directory: unparseable, not an object, without
\* a timestamp, with a timestamp that is no number, and well-formed ones
StoreContents ==
    {FText, FNonObject,
     FObject(JMissing, PList(<<Vault1>>), <<>>),
     FObject(JStr(<<"a">>), PList(<<Vault1>>), <<>>),
     FObject(JNull, PList(<<Vault1>>), <<>>),
     FObject(JNum(StartTime, 0), None, <<>>),
     FObject(JNum(StartTime, 0), PScalar, <<>>)}

InitCache ==
    /\ now = StartTime
    /\ provider = "base"
    /\ protocol_id = Swapx
    /\ cache_ttl \in TTLs
    /\ files \in {NoFiles}
          \cup {OneFile(CacheKey("swapx_subgraph_", Swapx, <<>>, <<>>), c) :
                   c \in StoreContents}
    /\ last = Idle
    /\ ncalls = 0
    /\ SingleProcess

\* the file a get reads (ghost)
Entry(fs, key) == IF Exists(fs, key) THEN fs[key]
                  ELSE [kind |-> "nofile", ts |-> JMissing, data |-> None, by |-> <<>>]

\* get(key): one call of _get_cached_data
CacheGet ==
    /\ ncalls < MaxCalls
    /\ \E key \in StoreKeys :
          LET r == GetCachedData(files, key, now, cache_ttl)
          IN  last' = [op |-> "get", key |-> key, t |-> now,
                       raised |-> r.raised, value |-> r.value,
                       payload |-> None, entry |-> Entry(files, key)]
    /\ ncalls' = ncalls + 1
    /\ UNCHANGED <<now, provider, protocol_id, cache_ttl, files>>
    /\ UNCHANGED process

\* put(key, payload): one call of _save_to_cache
CachePut ==
    /\ ncalls < MaxCalls
    /\ \E key \in StoreKeys, p \in StorePayloads :
          /\ files' = SaveToCache(files, key, p, now, <<>>)
          /\ last' = [op |-> "put", key |-> key, t |-> now,
                      raised |-> FALSE, value |-> None,
                      payload |-> p, entry |-> Entry(files, key)]
    /\ ncalls' = ncalls + 1
    /\ UNCHANGED <<now, provider, protocol_id, cache_ttl>>
    /\ UNCHANGED process

NextCache == Tick \/ CacheGet \/ CachePut

SpecCache == InitCache /\ [][NextCache]_vars

(***************************** claims: the cache store **********************)
\* the entry a get read is a JSON object with a numeric timestamp
WellFormed(c) == c.kind = "object" /\ c.ts.k = "num"

\* C1: get returns absent for every entry with now - timestamp > ttl, whatever
\* its payload, and the stored payload for every well-formed entry with
\* now - timestamp <= ttl (an entry aged exactly ttl is still valid).
C1_ExpiryBoundary ==
    (last.op = "get" /\ WellFormed(last.entry)) =>
        /\ ~last.raised
        /\ last.value = IF last.t - last.entry.ts.m > cache_ttl THEN None
                        ELSE last.entry.data

\* a get of an entry aged exactly ttl that returned its non-empty payload
C1_Witness ==
    /\ last.op = "get"
    /\ WellFormed(last.entry)
    /\ last.t - last.entry.ts.m = cache_ttl
    /\ last.value = PList(<<Vault1>>)

\* C2: put(key, payload) immediately followed by get(key) within the TTL
\* returns a value equal to payload, for every key and payload.
C2_RoundTrip ==
    [][(/\ last.op = "put"
        /\ last'.op = "get"
        /\ last'.key = last.key
        /\ last'.t - last.t <= cache_ttl)
       => (~last'.raised /\ last'.value = last.payload)]_vars

\* C3: get never raises, whatever the content of the cache file.
C3_GetNeverRaises == last.op = "get" => ~last.raised

(***************************** claims: the adapters *************************)
\* the adapters that build their cache key from the request
Subgraph == {"kingdom", "swapx"}

\* a transport request of the last call failed
TransportFailed == \E i \in 1..Len(last.reqs) : last.reqs[i] = "fail"

\* C4: with cache_ttl <= 0 no adapter call reads a cache entry, none writes
\* one, and every call goes to the transport.
C4_TtlDisabled ==
    cache_ttl <= 0 =>
        /\ \A k \in DOMAIN files : files[k].by = <<>>
        /\ last.op = "call" =>
              (last.reads = 0 /\ last.writes = 0 /\ Len(last.reqs) >= 1)

\* with the cache disabled, a second call whose key names a file (left in
\* the directory by hand) went to the transport and succeeded
C4_Witness ==
    /\ cache_ttl <= 0
    /\ last.op = "call"
    /\ ncalls = 2
    /\ last.key \in DOMAIN files
    /\ last.reqs = <<"ok">>
    /\ last.result.status = "success"

\* the entry under key is well-formed, unexpired and holds a list
ValidEntry(fs, key) ==
    /\ Exists(fs, key)
    /\ WellFormed(fs[key])
    /\ now - fs[key].ts.m <= cache_ttl
    /\ fs[key].data.shape = "list"

\* C5: with ttl > 0, on a cache hit (a valid unexpired entry exists for the
\* call's key, including one whose payload is an empty list) the adapter
\* uses the cached payload and makes no transport request.  Stated for the
\* two subgraph adapters.
C5_CacheHitNoRequest ==
    [][(/\ last'.op = "call"
        /\ ncalls' = ncalls + 1
        /\ last'.adapter \in Subgraph
        /\ cache_ttl > 0
        /\ ValidEntry(files, last'.key))
       => last'.reqs = <<>>]_vars

\* C6: the cache key separates requests, so a payload fetched for one request
\* (adapter, protocol id, pool filter, chain filter) is never served to a
\* different request.  Stated for the two subgraph adapters.
C6_KeySeparatesRequests ==
    (last.op = "call" /\ last.adapter \in Subgraph /\ last.hit) =>
        files[last.key].by = Request(last.adapter, last.pid, last.tp, last.chain)

\* C7: get_protocol_tvl returns status error only when a transport call made
\* in that call failed.  Stated for the aggregator adapter.
C7_ErrorOnlyOnTransportFailure ==
    (last.op = "call" /\ last.adapter = "defillama" /\ ~last.raised
     /\ last.result.status = "error") => TransportFailed

\* C8: get_protocol_tvl returns a result set and never raises, whatever the
\* transport outcome, the upstream payload and the cache content.
C8_CallNeverRaises == last.op = "call" => ~last.raised

\* C9: once a transport request of a call fails, the call makes no further
\* transport request and returns status error.
C9_NoRequestAfterFailure ==
    last.op = "call" =>
        \A i \in 1..Len(last.reqs) :
            last.reqs[i] = "fail" =>
                (i = Len(last.reqs) /\ ~last.raised /\ last.result.status = "error")

(***************************** merge ****************************************)
\* An element of data_list: a result set in the new format (a dict with
\* "status" and "data"), or a dict in the old format, pool id -> pool data
\* [protocol, chain, token_pair, tvl_usd, apy, provider], as SiloProtocol
\* returns it.
New(rs) == [fmt |-> "new", rs |-> rs, pools |-> <<>>]
Old(pools) == [fmt |-> "old", rs |-> NoResult, pools |-> pools]

\* tracker.py lines 57-63: the slug of the first configured protocol whose
\* defillama_project equals the pool's protocol, case-insensitively
SlugOfProject(name) ==
    IF \E i \in 1..Len(PROTOCOL_CONFIG) : Lower(PROTOCOL_CONFIG[i].project) = Lower(name)
    THEN JStr(PROTOCOL_CONFIG[
             CHOOSE i \in 1..Len(PROTOCOL_CONFIG) :
                 /\ Lower(PROTOCOL_CONFIG[i].project) = Lower(name)
                 /\ \A j \in 1..(i - 1) :
                        Lower(PROTOCOL_CONFIG[j].project) # Lower(name)].slug)
    ELSE JNull

\* tracker.py lines 65-73: the record made of one old-format pool
OldRecord(pool) ==
    [protocol |-> Get(pool.protocol, JStr(<<"N/A">>)),
     protocol_slug |-> SlugOfProject(Get(pool.protocol, JStr(<<>>)).s),
     chain |-> Get(pool.chain, JStr(<<"N/A">>)),
     pool_name |-> Get(pool.token_pair, JStr(<<"N/A">>)),
     tvl |-> IF pool.tvl_usd.k = "num"
             THEN Div10(Dec(pool.tvl_usd.m, pool.tvl_usd.e), 6) ELSE Dec(0, 0),
     apy |-> Get(pool.apy, JNum(0, 0)),
     provider |-> Get(pool.provider, JStr(<<"N/A">>))]

\* tracker.py lines 41-74, one pass of the loop over data_list
MergeStepPrepend(acc, d) ==
    IF d.fmt = "new"
    THEN IF d.rs.status = "success" /\ d.rs.data # <<>>
         THEN [acc EXCEPT !.data = d.rs.data \o @, !.count = @ + Len(d.rs.data)]
         ELSE acc
    ELSE [acc EXCEPT !.data = @ \o [j \in 1..Len(d.pools) |-> OldRecord(d.pools[j])],
                     !.count = @ + Len(d.pools)]

MergeStep(acc, d) ==
    IF d.fmt = "new"
    THEN IF d.rs.status = "success" /\ d.rs.data # <<>>
         THEN [acc EXCEPT !.data = @ \o d.rs.data, !.count = @ + Len(d.rs.data)]
         ELSE acc
    ELSE [acc EXCEPT !.data = @ \o [j \in 1..Len(d.pools) |-> OldRecord(d.pools[j])],
                     !.count = @ + Len(d.pools)]

\* merge_tvl_data
MergeTvlData(data_list) ==
    LET F[i \in 0..Len(data_list)] ==
            IF i = 0 THEN [status |-> "success", count |-> 0, data |-> <<>>]
            ELSE MergeStep(F[i - 1], data_list[i])
    IN  F[Len(data_list)]

\* result sets handed to merge: what the adapters return, and SiloProtocol's
\* old-format dict
KPool2 == [id |-> JStr(<<"k2">>), symbol |-> JStr(<<"w", "S">>),
           totalValueLockedUSD |-> JNumStr(3, 6)]
SiloOld == <<[protocol |-> JStr(<<"silo">>), chain |-> JMissing,
              token_pair |-> JStr(<<"S-USDC.e">>), tvl_usd |-> JNum(7, 6),
              apy |-> JMissing, provider |-> JStr(<<"defillama">>)]>>
MergeSets ==
    {New(ResultSet(<<KingdomRecord(KPool1, Silo, <<>>)>>)),
     New(ResultSet(<<KingdomRecord(KPool2, Silo, <<>>),
                     KingdomRecord(KPool1, Silo, <<>>)>>)),
     New(ResultSet(<<SwapxRecord(Vault1, Swapx, <<>>)>>)),
     New(ResultSet(<<>>)),
     New(ErrorResult),
     Old(SiloOld)}

\* merge is given at most MaxSets result sets
MaxSets == 3

RECURSIVE SeqsUpTo(_, _)
SeqsUpTo(S, n) ==
    IF n = 0 THEN {<<>>}
    ELSE LET shorter == SeqsUpTo(S, n - 1)
         IN  shorter \cup {Append(q, x) : q \in shorter, x \in S}

InitMerge ==
    /\ now = StartTime
    /\ provider = "none"
    /\ protocol_id = Silo
    /\ cache_ttl = 0
    /\ files = NoFiles
    /\ last = Idle
    /\ ncalls = 0
    /\ SingleProcess

\* main merges once per run
Merge ==
    /\ ncalls = 0
    /\ \E data_list \in SeqsUpTo(MergeSets, MaxSets) :
          last' = [op |-> "merge", input |-> data_list,
                   result |-> MergeTvlData(data_list)]
    /\ ncalls' = ncalls + 1
    /\ UNCHANGED <<now, provider, protocol_id, cache_ttl, files>>
    /\ UNCHANGED process

SpecMerge == InitMerge /\ [][Merge]_vars

(***************************** claims: merge ********************************)
\* some input result set has status success
AnySuccess(data_list) ==
    \E i \in 1..Len(data_list) :
        data_list[i].fmt = "new" /\ data_list[i].rs.status = "success"

\* C10: merge sets the overall status to success if at least one input result
\* set has status success and to no_data otherwise; merging an empty list or
\* only error / no_data result sets yields no_data with count 0 and no records.
C10_MergeStatus ==
    last.op = "merge" =>
        IF AnySuccess(last.input) THEN last.result.status = "success"
        ELSE \/ \E i \in 1..Len(last.input) : last.input[i].fmt = "old"
             \/ (last.result.status = "no_data" /\ last.result.count = 0
                 /\ last.result.data = <<>>)

\* the records and the counts of the inputs with status success, in input order
RECURSIVE SuccessRecords(_)
SuccessRecords(data_list) ==
    IF data_list = <<>> THEN <<>>
    ELSE LET d == Head(data_list) IN
         (IF d.rs.status = "success" THEN d.rs.data ELSE <<>>)
             \o SuccessRecords(Tail(data_list))

RECURSIVE SuccessCount(_)
SuccessCount(data_list) ==
    IF data_list = <<>> THEN 0
    ELSE LET d == Head(data_list) IN
         (IF d.rs.status = "success" THEN d.rs.count ELSE 0)
             + SuccessCount(Tail(data_list))

AllNew(data_list) == \A i \in 1..Len(data_list) : data_list[i].fmt = "new"

\* C11: for every sequence of result sets the merged records are exactly the
\* concatenation, in input order, of the records of the inputs with status
\* success, nothing deduplicated, and the merged count is the sum of those
\* inputs' counts.
C11_MergeConcatenates ==
    (last.op = "merge" /\ AllNew(last.input)) =>
        /\ last.result.data = SuccessRecords(last.input)
        /\ last.result.count = SuccessCount(last.input)

\* two different successful inputs, the first of them given twice
C11_Witness ==
    /\ last.op = "merge" /\ AllNew(last.input) /\ Len(last.input) = 3
    /\ last.input[1] = last.input[2] /\ last.input[1] # last.input[3]
    /\ \A i \in 1..3 : last.input[i].rs.status = "success"
    /\ last.result.count = 4
    /\ last.result.data[1] = last.result.data[2]

(***************************** claims: aggregator fallback ******************)
\* equality of two floats m * 10^e
DecEq(x, y) ==
    LET mn == IF x.e < y.e THEN x.e ELSE y.e
    IN  x.m * 10^(x.e - mn) = y.m * 10^(y.e - mn)

\* a record of the protocol-level fallback: it has no pool_id
FromFallback(r) == "pool_id" \notin DOMAIN r

AggregateName == JStr(<<"All Pools (Aggregate)">>)

\* the aggregator's call took the fallback and its protocol request succeeded
FallbackServed ==
    /\ last.op = "call" /\ last.adapter = "defillama"
    /\ ~TransportFailed /\ last.info # None

\* C12: queried with no pool filter, when the pools endpoint yields zero
\* matching rows and the protocol-level request succeeds, the aggregator
\* returns status success with count 1 and exactly one record named
\* "All Pools (Aggregate)".
C12_FallbackOneRecord ==
    (FallbackServed /\ last.tp = <<>>) =>
        /\ last.result.status = "success"
        /\ last.result.count = 1
        /\ Len(last.result.data) = 1
        /\ last.result.data[1].pool_name = AggregateName

\* C13: every record made by the protocol-level fallback is marked as an
\* aggregate, whatever the pool filter and the chain filter are.
C13_FallbackMarked ==
    (last.op = "call" /\ last.adapter = "defillama" /\ ~last.raised) =>
        \A i \in 1..Len(last.result.data) :
            FromFallback(last.result.data[i]) =>
                \/ last.result.data[i].pool_name = AggregateName
                \/ last.result.data[i].chain = JStr(<<"All">>)

\* the sum of currentChainTvls, all of them numbers
RECURSIVE SumAt(_, _)
SumAt(tvls, e) ==
    IF tvls = <<>> THEN 0
    ELSE Head(tvls).tvl.m * 10^(Head(tvls).tvl.e - e) + SumAt(Tail(tvls), e)

TotalTvl(tvls) ==
    LET mn == CHOOSE e \in {tvls[i].tvl.e : i \in 1..Len(tvls)} :
                  \A i \in 1..Len(tvls) : e <= tvls[i].tvl.e
    IN  IF tvls = <<>> THEN Dec(0, 0) ELSE Dec(SumAt(tvls, mn), mn)

AllNumbers(tvls) == \A i \in 1..Len(tvls) : tvls[i].tvl.k = "num"

\* C14: the aggregate record's TVL is the protocol's total over all chains of
\* currentChainTvls divided by 1e6 when no chain filter is given, and the TVL
\* of the requested chain divided by 1e6 when one is given.
C14_FallbackTvl ==
    (FallbackServed /\ AllNumbers(last.info.tvls) /\ last.result.count = 1) =>
        LET r == last.result.data[1]
            want == IF last.chain = <<>> THEN TotalTvl(last.info.tvls)
                    ELSE Dec(ChainTvl(last.info.tvls, Capitalize(last.chain)).m,
                             ChainTvl(last.info.tvls, Capitalize(last.chain)).e)
        IN  DecEq(r.tvl, Dec(want.m, want.e - 6))

(***************************** claims: filters and units ********************)
\* a call that returned a result set
Returned == last.op = "call" /\ ~last.raised

\* f occurs in the record's pool_name, any case
NameContains(r, f) ==
    r.pool_name.k = "str" /\ IsIn(Lower(f), Lower(r.pool_name.s))

\* C15: for every adapter and every non-empty pool filter f, every record of
\* the returned result set has a pool_name that contains f case-insensitively.
C15_PoolFilter ==
    (Returned /\ last.tp # <<>>) =>
        \A i \in 1..Len(last.result.data) : NameContains(last.result.data[i], last.tp)

\* C16: for every adapter and every chain filter c, every record of the
\* returned result set has a chain equal to c case-insensitively; the
\* aggregator drops the upstream pools of any other chain.
C16_ChainFilter ==
    (Returned /\ last.chain # <<>>) =>
        \A i \in 1..Len(last.result.data) :
            /\ last.result.data[i].chain.k = "str"
            /\ Lower(last.result.data[i].chain.s) = Lower(last.chain)

\* the aggregator was given pools of two chains and kept the one asked for
C16_Witness ==
    /\ Returned /\ last.adapter = "defillama" /\ last.chain = <<"sonic">>
    /\ last.reqs = <<"ok">> /\ <<"pools">> \in DOMAIN files
    /\ Len(files[<<"pools">>].data.items) = 2
    /\ last.result.count = 1
    /\ last.result.data[1].chain = JStr(<<"Sonic">>)

\* the raw pools the aggregator may be given
LlamaPools == UNION {{l[i] : i \in 1..Len(l)} : l \in LlamaLists}

\* the raw USD value a record was made from: the TVL field of the raw pool
\* (SubgraphA keeps the raw pool in the record; the aggregator's raw pool is
\* the one with the record's pool_id)
RawTvl(adapter, r) ==
    IF adapter = "kingdom" THEN Get(r.raw_data.totalValueLockedUSD, JNum(0, 0))
    ELSE Get((CHOOSE q \in LlamaPools : q.pool = r.pool_id).tvlUsd, JNum(0, 0))

\* a raw value the adapter reads as a number: SubgraphA takes float() of a
\* number or a numeric string, the aggregator divides a JSON number
IsUsdValue(adapter, v) ==
    IF adapter = "kingdom" THEN v.k \in {"num", "numstr"} ELSE v.k = "num"

\* C17: for every raw record with USD TVL value v, the aggregator (tvlUsd)
\* and SubgraphA (totalValueLockedUSD, the default TVL field) produce a
\* record whose tvl equals v / 1e6.
C17_UnitConversion ==
    (Returned /\ last.adapter \in {"kingdom", "defillama"}) =>
        \A i \in 1..Len(last.result.data) :
            LET r == last.result.data[i] IN
            ~FromFallback(r) =>
                LET v == RawTvl(last.adapter, r) IN
                IsUsdValue(last.adapter, v) =>
                    DecEq(Dec(r.tvl.m, r.tvl.e + 6), Dec(v.m, v.e))

\* SubgraphA turned "2500000" into 2.5
C17_Witness ==
    /\ Returned /\ last.adapter = "kingdom" /\ last.result.count = 2
    /\ last.result.data[2].raw_data.totalValueLockedUSD = JNumStr(25, 5)
    /\ last.result.data[2].tvl = Dec(25, -1)
    /\ last.result.data[1].tvl = Dec(4, 0)

Absent(v) == v.k \in {"missing", "null"}

\* C18: a SubgraphB record's tvl is totalSupply / 1e12 for a vault with a
\* totalSupply ("5000000000000" gives 5.0), vaultCount * 0.1 for a vault
\* without totalSupply, and 0 for a vault with neither.
C18_TvlEstimate ==
    (Returned /\ last.adapter = "swapx") =>
        \A i \in 1..Len(last.result.data) :
            LET r == last.result.data[i]
                s == r.raw_data.totalSupply
                n == r.raw_data.vaultCount
            IN  /\ s.k = "numstr" => DecEq(r.tvl, Dec(s.m, s.e - 12))
                /\ (Absent(s) /\ n.k \in {"num", "numstr"} /\ n.e >= 0)
                       => DecEq(r.tvl, Dec(n.m, n.e - 1))
                /\ (Absent(s) /\ Absent(n)) => r.tvl = Dec(0, 0)

\* one vault with totalSupply "5000000000000" and one with neither field
C18_Witness ==
    /\ Returned /\ last.adapter = "swapx" /\ last.result.count = 2
    /\ last.result.data[1].raw_data.totalSupply = JNumStr(5, 12)
    /\ last.result.data[1].tvl = Dec(5, 0)
    /\ Absent(last.result.data[2].raw_data.totalSupply)
    /\ last.result.data[2].tvl = Dec(0, 0)

\* the fields every record has; the fields liquidity, volume_usd and fee_tier
\* the model leaves out are display values of the raw record
RecordFields ==
    {"protocol", "protocol_slug", "chain", "pool_name", "pool_id", "tvl",
     "apy", "provider", "raw_data"}

\* the record says its TVL is an estimate: in a field of its own, or in the
\* provider tag
EstimateLabelled(r) ==
    \/ DOMAIN r \ RecordFields # {}
    \/ r.provider # JStr(<<"SwapxSubgraph">>)

\* C19: every record the SubgraphB (SwapX) adapter returns carries a label
\* marking its TVL as an estimate.
C19_EstimateLabel ==
    (Returned /\ last.adapter = "swapx") =>
        \A i \in 1..Len(last.result.data) : EstimateLabelled(last.result.data[i])

\* C20: SubgraphA's where clause is a case-insensitive symbol-contains match
\* on the pool filter when one is given; otherwise it is built from the
\* protocol's default filter set, which falls back to symbol_contains "USD"
\* for a protocol that configures none.
C20_WhereClause ==
    (last.op = "call" /\ last.adapter = "kingdom" /\ last.query.sent) =>
        /\ Len(last.query.where) = 1
        /\ last.query.where[1].key = <<"symbol_contains", "_nocase">>
        /\ last.query.where[1].value =
               IF last.tp # <<>> THEN JStr(last.tp) ELSE JStr(<<"USD">>)
        /\ DefaultFilters(last.pid) =
               <<[key |-> <<"symbol_contains">>, value |-> JStr(<<"USD">>)]>>

\* a query with the pool filter "sonic" was sent and answered with the one
\* pool whose symbol holds it
C20_Witness ==
    /\ last.op = "call" /\ last.adapter = "kingdom" /\ last.query.sent
    /\ last.tp = <<"sonic">>
    /\ last.query.where[1].value = JStr(<<"sonic">>)
    /\ last.result.count = 1
    /\ last.result.data[1].pool_name = JStr(<<"Sonic", "-", "USD">>)

(***************************** protocol classes *****************************)
\* the modules of src/protocols that hold a protocol class, by module name
Modules ==
    {<<"aave">>, <<"beets">>, <<"curve">>, <<"dummy">>, <<"euler">>,
     <<"shadow">>, Silo, Swapx}

\* the class attribute DEFAULT_PROVIDER of the class in module m
DEFAULT_PROVIDER(m) ==
    CASE m = Swapx -> <<"swapx_subgraph">>
      [] m = <<"shadow">> -> <<"kingdom_subgraph">>
      [] OTHER -> <<"defillama">>

\* the class attribute SUPPORTED_PROVIDERS, a list
SUPPORTED_PROVIDERS(m) ==
    CASE m = Swapx -> << <<"swapx_subgraph">> >>
      [] m = <<"shadow">> -> << <<"kingdom_subgraph">> >>
      [] m = Silo -> << <<"defillama">>, <<"web">> >>
      [] OTHER -> << <<"defillama">> >>

\* x in l
InList(x, l) == \E i \in 1..Len(l) : l[i] = x

\* ProtocolBase._get_provider: the error it raised ("" for none), the adapter
\* class of the instance it made, and the number of provider instances made
ProtocolGetProvider(provider_name) ==
    IF provider_name = <<"defillama">>
    THEN [raised |-> "", provider |-> "defillama", created |-> 1]
    ELSE [raised |-> "unknown provider", provider |-> "none", created |-> 0]

\* ProtocolBase.__init__ of the class in module m
ProtocolInitFallback(m, provider_name) ==
    LET given == IF provider_name # <<>> THEN provider_name
                 ELSE DEFAULT_PROVIDER(m)
        name == IF InList(given, SUPPORTED_PROVIDERS(m)) THEN given
                ELSE DEFAULT_PROVIDER(m)
        p == ProtocolGetProvider(name)
    IN  [raised |-> p.raised, provider_name |-> name,
         provider |-> p.provider, created |-> p.created]

ProtocolInit(m, provider_name) ==
    LET name == IF provider_name # <<>> THEN provider_name
                ELSE DEFAULT_PROVIDER(m)
    IN  IF ~InList(name, SUPPORTED_PROVIDERS(m))
        THEN [raised |-> "not supported", provider_name |-> name,
              provider |-> "none", created |-> 0]
        ELSE LET p == ProtocolGetProvider(name)
             IN  [raised |-> p.raised, provider_name |-> name,
                  provider |-> p.provider, created |-> p.created]

\* a protocol object or the failure to make one: the module of its class,
\* the provider_name its constructor was given, and what __init__ did
Constructed(m, given, init) ==
    [op |-> "protocol", module |-> m, given |-> given] @@ init

\* get_protocol_instance: the module is imported and its class is called with
\* provider_name as the only argument; the first parameter of DummyProtocol
\* is protocol_name, so its provider_name stays None
GetProtocolInstance(protocol_name, provider_name) ==
    IF protocol_name \notin Modules
    THEN [op |-> "factory", module |-> protocol_name, given |-> provider_name,
          raised |-> "protocol not supported", provider_name |-> <<>>,
          provider |-> "none", created |-> 0]
    ELSE LET given == IF protocol_name = <<"dummy">> THEN <<>>
                      ELSE provider_name
         IN  Constructed(protocol_name, given, ProtocolInit(protocol_name, given))

\* get_supported_protocols: an entry for each key of PROTOCOL_CONFIG whose
\* module can be imported, in dict order
GetSupportedProtocols ==
    LET ids == [i \in 1..Len(PROTOCOL_CONFIG) |-> PROTOCOL_CONFIG[i].id]
        have == SelectSeq(ids, LAMBDA id : id \in Modules)
    IN  [i \in 1..Len(have) |->
            [protocol |-> have[i], providers |-> SUPPORTED_PROVIDERS(have[i])]]

\* providers.get_provider knows these names
ProviderClasses ==
    {<<"defillama">>, <<"kingdom_subgraph">>, <<"swapx_subgraph">>}

\* SwapxSubgraphProvider.__init__ lines 26-46: self.headers is the headers
\* dict of API_CONFIG itself, and gains Authorization when an API key is set
SwapxInit(cfg) ==
    IF cfg.api_key THEN [cfg EXCEPT !.headers = @ \cup {"Authorization"}]
    ELSE cfg

(***************************** main *****************************************)
\* cache_ttl of the DefiLlamaProvider() a protocol makes
DefaultTtl == 3600

\* what a run of main did: its exit code, what it printed, the result set
\* the protocol's get_tvl returned (NoResult when there is none), and the
\* cache directory afterwards
Ran(exit, printed, fetched, fs) ==
    [exit |-> exit, printed |-> printed, fetched |-> fetched, fs |-> fs]

\* main with the command line --protocol/--supported, --provider, --pool,
\* --chain; resp1 and resp2 answer the requests of the DefiLlama adapter
Main(fs, t, supported, protocol, provider_name, pool, chain, resp1, resp2) ==
    IF supported THEN Ran(0, "supported", NoResult, fs)
    ELSE IF \/ ~\E i \in 1..Len(GetSupportedProtocols) :
                  GetSupportedProtocols[i].protocol = protocol
            \/ provider_name \notin {<<>>, <<"defillama">>}
    THEN \* argparse rejects the choice: SystemExit(2)
         Ran(2, "usage", NoResult, fs)
    ELSE IF ~Configured(protocol) THEN Ran(1, "not configured", NoResult, fs)
    ELSE
    LET inst == GetProtocolInstance(protocol, provider_name)
    IN  IF inst.raised # ""
        THEN Ran(0, "no data", NoResult, fs)
        ELSE IF protocol = Silo
        THEN \* SiloProtocol.get_tvl(token_pair) is called with two arguments:
             \* a TypeError, caught at line 103
             Ran(0, "no data", NoResult, fs)
        ELSE
        LET out == LlamaGetProtocolTvl(fs, t, DefaultTtl, protocol, pool,
                                       chain, resp1, resp2)
            data_list == IF out.raised THEN <<>> ELSE <<New(out.result)>>
            merged == MergeTvlData(data_list)
            fetched == IF out.raised THEN NoResult ELSE out.result
        IN  IF merged.data # <<>>
            THEN \* no protocol class has a format_output method: the
                 \* AttributeError reaches the handler at line 122
                 Ran(1, "error", fetched, out.fs)
            ELSE Ran(0, "no data", fetched, out.fs)

(***************************** the program's entry points *******************)
ProviderNames ==
    {<<>>, <<"defillama">>, <<"web">>, <<"swapx_subgraph">>,
     <<"kingdom_subgraph">>, <<"bogus">>}
ProtocolNames == Modules \cup {<<"pendle">>}

InitApp ==
    /\ now = StartTime
    /\ provider = "none"
    /\ protocol_id = Silo
    /\ cache_ttl = DefaultTtl
    /\ files = NoFiles
    /\ last = Idle
    /\ ncalls = 0
    /\ api_config \in {API_CONFIG(k) : k \in BOOLEAN}
    /\ threads = NoThreads
    /\ disk = NoDisk

\* Class(provider_name), DummyProtocol(protocol_name, provider_name)
NewProtocol ==
    /\ ncalls < MaxCalls
    /\ \E m \in Modules, provider_name \in ProviderNames :
          last' = Constructed(m, provider_name, ProtocolInit(m, provider_name))
    /\ ncalls' = ncalls + 1
    /\ UNCHANGED <<now, provider, protocol_id, cache_ttl, files, process>>

\* get_protocol_instance(protocol_name, provider_name)
ProtocolInstance ==
    /\ ncalls < MaxCalls
    /\ \E protocol_name \in ProtocolNames, provider_name \in ProviderNames :
          last' = GetProtocolInstance(protocol_name, provider_name)
    /\ ncalls' = ncalls + 1
    /\ UNCHANGED <<now, provider, protocol_id, cache_ttl, files, process>>

\* get_supported_protocols()
SupportedProtocols ==
    /\ ncalls < MaxCalls
    /\ last' = [op |-> "list", result |-> GetSupportedProtocols]
    /\ ncalls' = ncalls + 1
    /\ UNCHANGED <<now, provider, protocol_id, cache_ttl, files, process>>

\* get_provider(provider_name): the constructor of the provider class
NewProvider ==
    /\ ncalls < MaxCalls
    /\ \E name \in ProviderClasses \cup {<<"bogus">>} :
          /\ api_config' = IF name = <<"swapx_subgraph">>
                           THEN SwapxInit(api_config) ELSE api_config
          /\ last' = [op |-> "provider", name |-> name,
                      raised |-> name \notin ProviderClasses]
    /\ ncalls' = ncalls + 1
    /\ UNCHANGED <<now, provider, protocol_id, cache_ttl, files, threads, disk>>

\* command lines given to tracker.py: protocols with a DefiLlama class, with
\* a class that overrides get_tvl, with a class no provider can be made for,
\* with a configuration and no module, and with a module and no configuration
MainProtocols == {<<"aave">>, Silo, Swapx, <<"pendle">>, <<"shadow">>}
MainProviders == {<<>>, <<"web">>}

\* --supported excludes --protocol; the other options are read only with
\* --protocol
MainArgs ==
    {[supported |-> TRUE, protocol |-> <<>>, provider_name |-> <<>>,
      chain |-> <<>>, resp1 |-> Fail, resp2 |-> Fail]}
    \cup [supported : {FALSE}, protocol : MainProtocols,
          provider_name : MainProviders, chain : Chains,
          resp1 : PoolsResponses, resp2 : InfoResponses]

\* one run of tracker.py
RunMain ==
    /\ ncalls < MaxCalls
    /\ \E a \in MainArgs :
          \E r \in {Main(files, now, a.supported, a.protocol, a.provider_name,
                        <<>>, a.chain, a.resp1, a.resp2)} :
              /\ files' = r.fs
              /\ last' = [op |-> "main", supported |-> a.supported,
                          protocol |-> a.protocol, exit |-> r.exit,
                          printed |-> r.printed, fetched |-> r.fetched]
    /\ ncalls' = ncalls + 1
    /\ UNCHANGED <<now, provider, protocol_id, cache_ttl, process>>

NextApp ==
    NewProtocol \/ ProtocolInstance \/ SupportedProtocols \/ NewProvider
        \/ RunMain

SpecApp == InitApp /\ [][NextApp]_vars

(***************************** threads sharing one cache file ***************)
\* Two threads run _save_to_cache and one runs _get_cached_data, all on the
\* same cache key.  The file object of open() is buffered: json.dump reaches
\* the file in blocks and json.load reads it in blocks.  The file is the
\* sequence of its blocks; a block is [by, index, of], block `index` of the
\* `of` blocks of the text thread `by` dumps.
\* the text of a put has at most MaxBlocks blocks
MaxBlocks == 2
Writers == {1, 2}
Reader == 3
RaceKey == CacheKey("swapx_subgraph_", Swapx, <<>>, <<>>)

\* the blocks of NULs a write beyond the end of the file leaves before it
Hole == [by |-> 0, index |-> 0, of |-> 0]

\* the text thread w dumps when its text has n blocks
TextOf(w, n) == [i \in 1..n |-> [by |-> w, index |-> i, of |-> n]]

\* the payload thread w puts: one item per block of its text
PayloadOf(w, n) == PList([i \in 1..n |-> w])

\* write(2) of block b at block position pos of the file
WriteAt(blocks, pos, b) ==
    [i \in 1..(IF pos > Len(blocks) THEN pos ELSE Len(blocks)) |->
        IF i = pos THEN b
        ELSE IF i <= Len(blocks) THEN blocks[i] ELSE Hole]

\* the blocks make up one JSON document: each is the next block of a text
\* of that many blocks
OneDocument(buf) ==
    /\ buf # <<>>
    /\ \A i \in 1..Len(buf) : buf[i].index = i /\ buf[i].of = Len(buf)

\* json.load of the blocks read: what the file is taken to hold.  Blocks of
\* different texts that line up as one document parse when the two texts
\* break at the same places of their syntax, and do not parse otherwise.
Loaded(buf, t) ==
    IF ~OneDocument(buf) THEN {FText}
    ELSE {FObject(JNum(t, 0), PList([i \in 1..Len(buf) |-> buf[i].by]), <<>>)}
         \cup (IF \A i \in 1..Len(buf) : buf[i].by = buf[1].by THEN {}
               ELSE {FText})

\* a thread: its position, the blocks it has written, the number of blocks
\* of its text, the blocks it has read, and the outcome of its get
Thread(pc, off, len, buf, raised, value) ==
    [pc |-> pc, off |-> off, len |-> len, buf |-> buf,
     raised |-> raised, value |-> value]

InitRace ==
    /\ now = StartTime
    /\ provider = "base"
    /\ protocol_id = Swapx
    /\ cache_ttl = 1
    /\ files = NoFiles
    /\ last = Idle
    /\ ncalls = 0
    /\ api_config = API_CONFIG(FALSE)
    /\ \E n1 \in 1..MaxBlocks, n2 \in 1..MaxBlocks :
          threads = <<Thread("start", 0, n1, <<>>, FALSE, None),
                      Thread("start", 0, n2, <<>>, FALSE, None),
                      Thread("start", 0, 0, <<>>, FALSE, None)>>
    /\ disk = NoDisk

\* _save_to_cache line 117: open(cache_path, 'w') creates or truncates
WriterOpen ==
    \E w \in Writers :
       /\ threads[w].pc = "start"
       /\ disk' = [exists |-> TRUE, blocks |-> <<>>]
       /\ threads' = [threads EXCEPT ![w].pc = "writing"]
       /\ UNCHANGED <<now, provider, protocol_id, cache_ttl, files, last,
                      ncalls, api_config>>

\* _save_to_cache line 118: json.dump, one block at the thread's own file
\* position; the last block is written when the with statement closes the
\* file.  last (ghost): the put that finished last
WriterWrite ==
    \E w \in Writers :
       LET th == threads[w]
           b == TextOf(w, th.len)[th.off + 1]
       IN  /\ th.pc = "writing"
           /\ disk' = [disk EXCEPT !.blocks = WriteAt(@, th.off + 1, b)]
           /\ threads' = [threads EXCEPT
                             ![w].off = th.off + 1,
                             ![w].pc = IF th.off + 1 = th.len THEN "done"
                                       ELSE "writing"]
           /\ last' = IF th.off + 1 = th.len
                      THEN [op |-> "put", thread |-> w,
                            payload |-> PayloadOf(w, th.len)]
                      ELSE last
           /\ UNCHANGED <<now, provider, protocol_id, cache_ttl, files,
                          ncalls, api_config>>

\* _get_cached_data lines 85-89: os.path.exists, then open(cache_path, 'r')
ReaderOpen ==
    /\ threads[Reader].pc \in {"start", "done"}
    /\ ncalls < MaxCalls
    /\ threads' = [threads EXCEPT ![Reader] =
                      IF disk.exists
                      THEN Thread("reading", 0, 0, <<>>, FALSE, None)
                      ELSE Thread("done", 0, 0, <<>>, FALSE, None)]
    /\ ncalls' = ncalls + 1
    /\ UNCHANGED <<now, provider, protocol_id, cache_ttl, files, last,
                   api_config, disk>>

\* _get_cached_data line 90: json.load reads the next block
ReaderRead ==
    LET th == threads[Reader] IN
    /\ th.pc = "reading"
    /\ Len(th.buf) < Len(disk.blocks)
    /\ threads' = [threads EXCEPT
                      ![Reader].buf = Append(th.buf, disk.blocks[Len(th.buf) + 1])]
    /\ UNCHANGED <<now, provider, protocol_id, cache_ttl, files, last, ncalls,
                   api_config, disk>>

\* _get_cached_data lines 90-99: at the end of the file json.load parses
\* what was read, and the get ends as it does for a file of that content
ReaderLoad ==
    LET th == threads[Reader] IN
    /\ th.pc = "reading"
    /\ Len(th.buf) >= Len(disk.blocks)
    /\ \E c \in Loaded(th.buf, now) :
          LET r == GetCachedData(OneFile(RaceKey, c), RaceKey, now, cache_ttl)
          IN  threads' = [threads EXCEPT ![Reader] =
                             Thread("done", 0, 0, th.buf, r.raised, r.value)]
    /\ UNCHANGED <<now, provider, protocol_id, cache_ttl, files, last, ncalls,
                   api_config, disk>>

NextRace == WriterOpen \/ WriterWrite \/ ReaderOpen \/ ReaderRead \/ ReaderLoad

SpecRace == InitRace /\ [][NextRace]_vars

(***************************** claims: errors and construction **************)
\* C21: for both GraphQL adapters, a call whose request is answered by a 2xx
\* body with a top-level errors array returns status error and writes
\* nothing to the cache.
C21_GraphQLErrors ==
    (last.op = "call" /\ last.adapter \in Subgraph /\ last.errors) =>
        /\ ~last.raised
        /\ last.result.status = "error"
        /\ last.writes = 0

\* C22: constructing a protocol with a provider name outside its class's
\* SUPPORTED_PROVIDERS raises the configuration error before any provider
\* instance is made; the object never gets the default provider instead.
C22_UnsupportedProvider ==
    (last.op = "protocol" /\ last.given # <<>>
       /\ ~InList(last.given, SUPPORTED_PROVIDERS(last.module))) =>
        /\ last.raised = "not supported"
        /\ last.created = 0
        /\ last.provider = "none"
        /\ last.provider_name = last.given

\* AaveProtocol("web") was rejected
C22_Witness ==
    /\ last.op = "protocol" /\ last.module = <<"aave">>
    /\ last.given = <<"web">>
    /\ last.raised = "not supported" /\ last.created = 0

\* C24: get_supported_protocols has exactly one entry for every protocol id
\* of PROTOCOL_CONFIG, and no other entry, each with the supported providers
\* of that protocol's class.
C24_ListProtocols ==
    last.op = "list" =>
        /\ \A i \in 1..Len(PROTOCOL_CONFIG) :
              Cardinality({j \in 1..Len(last.result) :
                              last.result[j].protocol = PROTOCOL_CONFIG[i].id}) = 1
        /\ \A j \in 1..Len(last.result) :
              /\ Configured(last.result[j].protocol)
              /\ last.result[j].providers =
                     SUPPORTED_PROVIDERS(last.result[j].protocol)

\* C28: constructing any protocol class without a provider name (its
\* DEFAULT_PROVIDER is used) or with a member of its SUPPORTED_PROVIDERS
\* gives an object that holds a provider instance; nothing is raised.
C28_SupportedConstructs ==
    (last.op = "protocol"
       /\ (last.given = <<>>
           \/ InList(last.given, SUPPORTED_PROVIDERS(last.module)))) =>
        /\ last.raised = ""
        /\ last.provider # "none"
        /\ last.created = 1

\* C29: whatever providers have been constructed, with or without an API
\* key, the headers configured for SwapX are those of the module as
\* imported: no Authorization entry is added to API_CONFIG.
C29_ConfigUnchanged ==
    /\ api_config = API_CONFIG(api_config.api_key)
    /\ "Authorization" \notin api_config.headers

\* C30: when main is run for a configured protocol and the fetch returns a
\* result set with at least one record, the merged result is formatted and
\* printed and main returns 0; main returns 1 only for a protocol that is
\* not configured.
C30_MainExitCode ==
    (last.op = "main" /\ ~last.supported) =>
        /\ (Configured(last.protocol) /\ last.fetched.status # "raised"
              /\ Len(last.fetched.data) >= 1) =>
                (last.printed = "formatted" /\ last.exit = 0)
        /\ last.exit = 1 => ~Configured(last.protocol)

(***************************** claims: records and result sets **************)
\* the fields every record is to have
CanonicalFields ==
    {"protocol", "chain", "pool_name", "pool_id", "tvl", "provider"}

\* the provenance tag of each adapter
ProviderTag(adapter) ==
    CASE adapter = "kingdom" -> JStr(<<"KingdomSubgraph">>)
      [] adapter = "swapx" -> JStr(<<"SwapxSubgraph">>)
      [] OTHER -> JStr(<<"DefiLlama">>)

\* C25: every record of every result set an adapter returns, per-pool or
\* from the aggregator's fallback, has the fields protocol, chain, pool_name,
\* pool_id, tvl and provider, and provider names the adapter that made it.
C25_CanonicalRecord ==
    Returned =>
        \A i \in 1..Len(last.result.data) :
            /\ CanonicalFields \subseteq DOMAIN last.result.data[i]
            /\ last.result.data[i].provider = ProviderTag(last.adapter)

\* C26: every result set returned by an adapter's get_protocol_tvl (for the
\* aggregator, get_pools' result set or the fallback's) has count equal to
\* the number of its records, has status success if and only if it has at
\* least one record, and has no record when its status is no_data or error.
C26_ResultSetInvariant ==
    Returned =>
        /\ last.result.status \in {"success", "no_data", "error"}
        /\ last.result.count = Len(last.result.data)
        /\ last.result.status = "success" <=> Len(last.result.data) >= 1
        /\ last.result.status \in {"no_data", "error"} => last.result.data = <<>>

\* a call returned two records, after a call that returned none
C26_Witness ==
    /\ Returned /\ ncalls = 2
    /\ last.result.status = "success"
    /\ last.result.count = 2 /\ Len(last.result.data) = 2

(***************************** claims: failures and the cache ***************)
\* the cache key each request of a call fills, in the order of last.reqs:
\* the subgraph adapters make one request per call, the aggregator requests
\* the pools unless the cache held them, and then the protocol
RequestKeys(l) ==
    IF l.adapter \in Subgraph THEN <<l.key>>
    ELSE IF l.hit THEN << <<"protocol_info_">> \o DefillamaSlug(l.pid) >>
    ELSE << <<"pools">>, <<"protocol_info_">> \o DefillamaSlug(l.pid) >>

KeysOf(l, answer) ==
    {RequestKeys(l)[i] : i \in {j \in 1..Len(l.reqs) : l.reqs[j] = answer}}

\* key has the same entry, or none, before and after the step
SameEntry(key) ==
    /\ Exists(files, key) <=> Exists(files', key)
    /\ Exists(files, key) => files'[key] = files[key]

FailedRequestStep ==
    (ncalls' # ncalls /\ last'.op = "call" /\ KeysOf(last', "fail") # {}) =>
        /\ \A k \in KeysOf(last', "fail") : SameEntry(k)
        /\ \A k \in (DOMAIN files \cup DOMAIN files') \ KeysOf(last', "ok") :
              SameEntry(k)
        /\ ~last'.raised
        /\ (last'.adapter \in Subgraph
               \/ KeysOf(last', "fail") # {<<"pools">>}) =>
                 last'.result = ErrorResult
        /\ \A i \in 1..Len(last'.result.data) :
              FromFallback(last'.result.data[i])

C23_RaceBenign ==
    /\ threads[Reader].pc = "done" =>
          /\ ~threads[Reader].raised
          /\ \/ threads[Reader].value = None
             \/ \E w \in Writers :
                   threads[Reader].value = PayloadOf(w, threads[w].len)
    /\ (\A w \in Writers : threads[w].pc = "done") =>
          disk.blocks = TextOf(last.thread, threads[last.thread].len)

====
